---- MODULE Spec2Model ----
(***************************************************************************)
(* Model of server.js: one poll document kept as a JSON string under one   *)
(* Redis key, read and rewritten by five Express handlers and by the       *)
(* startup initializer ensurePollExists.  Every handler is an async        *)
(* function: it runs without interruption up to each `await` of a store    *)
(* operation, and other handlers run while it waits.                       *)
(*                                                                         *)
(* JavaScript values are represented as follows.                           *)
(*   - the value `undefined` of a body field is the string UNDEFINED;      *)
(*   - NUM5 stands for the JSON number 5 sent where a string is expected   *)
(*     (it is truthy and has no toLowerCase method);                       *)
(*   - `dates` of a request body is [kind, items]: kind says whether the   *)
(*     field is missing, an array or another truthy value (a string);      *)
(*   - optionIndex is <<>> when missing and <<n>> for the number n;        *)
(*   - the value of the Redis key is <<>> when the key is absent and       *)
(*     <<s>> when it holds the string s; a JSON string is [text |-> v];    *)
(*   - arrays are sequences; JavaScript index i is TLA+ index i + 1.       *)
(***************************************************************************)
EXTENDS Integers, Sequences, FiniteSets, TLC

\* ------------------------------------------------------------------ bounds
\* number of HTTP requests the process handles in a run
NReq == 2

\* number of userVotes entries of the documents GET /poll is applied to
MaxUsers == 3

\* ------------------------------------------------------- program constants
TopN == 5

POLL_ID == "seat-22222-3333-4444-555555555555"
POLL_TITLE == "Seattle Work Get-Together"

D1 == "2024-04-05"
D2 == "2024-04-12"
D3 == "2024-04-19"
D4 == "2024-04-26"
D5 == "2024-05-03"
D6 == "2024-05-10"
D7 == "2024-05-17"

UNDEFINED == "undefined"
NUM5 == "number:5"

\* ------------------------------------------------------ JavaScript helpers
\* !v for the body fields that are strings, undefined or a number
Falsy(v) == v \in {UNDEFINED, ""}

\* typeof v.toLowerCase === "function"
HasToLowerCase(v) == v # NUM5 /\ v # UNDEFINED

\* String.prototype.toLowerCase on the names the model uses
toLowerCase(s) ==
  CASE s = "Alice" -> "alice"
    [] s = "ALICE" -> "alice"
    [] s = "Bob"   -> "bob"
    [] s = "BOB"   -> "bob"
    [] s = "Carol" -> "carol"
    [] OTHER       -> s

JSON_stringify(v) == [text |-> v]
JSON_parse(s) == s.text

\* a.splice(i, 1)
Splice1(a, i) == [k \in 1 .. (Len(a) - 1) |-> IF k <= i THEN a[k] ELSE a[k + 1]]

\* ---------------------------------------------------------- the documents
Option(label, votes) == [label |-> label, votes |-> votes]

UserVote(id, userName, dates) == [id |-> id, userName |-> userName, dates |-> dates]

\* the object built in ensurePollExists when the key is absent
initialData ==
  [id        |-> POLL_ID,
   title     |-> POLL_TITLE,
   userVotes |-> <<>>,
   options   |-> <<Option(D1, 0), Option(D2, 0), Option(D3, 0)>>]

\* a document of the older shape: written before userVotes existed
OldShapeDoc ==
  [id      |-> POLL_ID,
   title   |-> POLL_TITLE,
   options |-> <<Option(D1, 0), Option(D2, 1), Option(D3, 0)>>]

\* a document left in the store by an earlier run of the server
PopulatedDoc ==
  [id        |-> POLL_ID,
   title     |-> POLL_TITLE,
   userVotes |-> <<UserVote("1712200000017", "Alice", <<D1>>),
                  UserVote("1712200000042", "Bob", <<D2, D1>>)>>,
   options   |-> <<Option(D1, 0), Option(D2, 1), Option(D3, 0)>>]


\* ------------------------------------------------- GET /poll: popularDates
\* all dates of all votes, in the order the two nested forEach visit them
RECURSIVE AllDates(_)
AllDates(userVotes) ==
  IF userVotes = <<>> THEN <<>>
  ELSE Head(userVotes).dates \o AllDates(Tail(userVotes))

\* the keys of dateCounts in insertion order: each date at its first visit
RECURSIVE DateKeys(_, _)
DateKeys(visited, keys) ==
  IF visited = <<>> THEN keys
  ELSE IF \E k \in 1 .. Len(keys) : keys[k] = Head(visited)
       THEN DateKeys(Tail(visited), keys)
       ELSE DateKeys(Tail(visited), Append(keys, Head(visited)))

\* dateCounts[date]: one increment per visit of the date
DateCount(visited, date) == Cardinality({k \in 1 .. Len(visited) : visited[k] = date})

\* Object.entries(dateCounts).map(([date, count]) => ({ date, count }))
DateEntries(userVotes) ==
  LET visited == AllDates(userVotes)
      keys    == DateKeys(visited, <<>>)
  IN  [k \in 1 .. Len(keys) |-> [date |-> keys[k], count |-> DateCount(visited, keys[k])]]

\* .sort((a, b) => b.count - a.count): stable, larger counts first
RECURSIVE SortByCount(_)
SortByCount(entries) ==
  IF entries = <<>> THEN <<>>
  ELSE LET best == CHOOSE k \in 1 .. Len(entries) :
                     /\ \A j \in 1 .. Len(entries) : entries[j].count <= entries[k].count
                     /\ \A j \in 1 .. (k - 1) : entries[j].count < entries[k].count
       IN  <<entries[best]>> \o SortByCount(Splice1(entries, best - 1))

\* mutant of Slice0: nothing is cut off
Slice0All(a, n) == a

\* .slice(0, n)
Slice0(a, n) == IF Len(a) <= n THEN a ELSE SubSeq(a, 1, n)

PopularDates(userVotes) == Slice0(SortByCount(DateEntries(userVotes)), TopN)

\* the body of the 200 response of GET /poll for the stored string data
GetPollBody(data) ==
  LET pollData == JSON_parse(data)
  IN  IF "userVotes" \in DOMAIN pollData /\ Len(pollData.userVotes) > 0
      THEN pollData @@ [popularDates |-> PopularDates(pollData.userVotes)]
      ELSE pollData

\* --------------------------------------------- the steps of the handlers
\* What a handler does after a store operation has answered: `status` is
\* the response it sends now (0: none yet), `write` the document it passes
\* to redisClient.set (<<>>: no set).
Reply(status) == [status |-> status, write |-> <<>>]
Write(poll) == [status |-> 0, write |-> <<poll>>]

THROWS == -2

\* mutant of findIndex: the names are compared as they are written
RECURSIVE FindExactFrom(_, _, _)
FindExactFrom(userVotes, userName, k) ==
  IF k > Len(userVotes) THEN -1
  ELSE IF userVotes[k].userName = userName THEN k - 1
  ELSE FindExactFrom(userVotes, userName, k + 1)

findIndexExact(userVotes, userName) == FindExactFrom(userVotes, userName, 1)

\* userVotes.findIndex(vote => vote.userName.toLowerCase() ===
\*                             userName.toLowerCase()),
\* THROWS when the callback raises a TypeError
RECURSIVE FindFrom(_, _, _)
FindFrom(userVotes, userName, k) ==
  IF k > Len(userVotes) THEN -1
  ELSE IF ~HasToLowerCase(userVotes[k].userName) \/ ~HasToLowerCase(userName)
       THEN THROWS
       ELSE IF toLowerCase(userVotes[k].userName) = toLowerCase(userName)
            THEN k - 1
            ELSE FindFrom(userVotes, userName, k + 1)

\* mutant of findIndex: the last entry is not examined
findIndexSkipLast(userVotes, userName) ==
  FindFrom(SubSeq(userVotes, 1, Len(userVotes) - 1), userName, 1)

findIndex(userVotes, userName) == FindFrom(userVotes, userName, 1)

\* mutant of SubmitInvalid: the check of dates.length is missing
SubmitInvalidNoLength(userName, dates) ==
  \/ Falsy(userName)
  \/ dates.kind = "undefined"
  \/ dates.kind # "array"

\* submit: the validation of the body
SubmitInvalid(userName, dates) ==
  \/ Falsy(userName)
  \/ dates.kind = "undefined"
  \/ dates.kind # "array"
  \/ Len(dates.items) = 0

\* mutant of SubmitUpdate: the new dates are added to the entry's dates
SubmitUpdateMerge(poll, existingUserIndex, userName, dates, now) ==
  IF existingUserIndex # -1
  THEN [poll EXCEPT !.userVotes[existingUserIndex + 1].dates = @ \o dates]
  ELSE [poll EXCEPT !.userVotes = Append(@, UserVote(now, userName, dates))]

\* mutant of SubmitUpdate: an entry is pushed whether or not one was found
SubmitUpdatePush(poll, existingUserIndex, userName, dates, now) ==
  [poll EXCEPT !.userVotes = Append(@, UserVote(now, userName, dates))]

\* submit: replace the dates of the entry found, or push a new entry
SubmitUpdate(poll, existingUserIndex, userName, dates, now) ==
  IF existingUserIndex # -1
  THEN [poll EXCEPT !.userVotes[existingUserIndex + 1].dates = dates]
  ELSE [poll EXCEPT !.userVotes = Append(@, UserVote(now, userName, dates))]

\* submit: from the answer of the get to the set
SubmitStep(raw, userName, dates, now) ==
  IF raw = <<>> THEN Reply(404)
  ELSE LET poll == JSON_parse(raw[1])
       IN  IF "userVotes" \notin DOMAIN poll THEN Reply(500)
           ELSE LET existingUserIndex == findIndex(poll.userVotes, userName)
                IN  IF existingUserIndex = THROWS THEN Reply(500)
                    ELSE Write(SubmitUpdate(poll, existingUserIndex, userName,
                                            dates.items, now))

\* delete: the validation of the path parameter
DeleteInvalid(userName) == Falsy(userName)

\* delete: poll.userVotes.splice(userIndex, 1)
DeleteUpdate(poll, userIndex) ==
  [poll EXCEPT !.userVotes = Splice1(@, userIndex)]

\* mutant of DeleteStep: the `return` before the 404 response is missing,
\* so the handler goes on to splice(-1, 1) and to the set
DeleteStepNoReturn(raw, userName) ==
  IF raw = <<>> THEN Reply(404)
  ELSE LET poll == JSON_parse(raw[1])
       IN  IF "userVotes" \notin DOMAIN poll THEN Reply(500)
           ELSE LET userIndex == findIndex(poll.userVotes, userName)
                IN  IF userIndex = THROWS THEN Reply(500)
                    ELSE IF userIndex = -1
                    THEN [status |-> 404,
                          write  |-> <<DeleteUpdate(poll, Len(poll.userVotes) - 1)>>]
                    ELSE Write(DeleteUpdate(poll, userIndex))

\* delete: from the answer of the get to the set
DeleteStep(raw, userName) ==
  IF raw = <<>> THEN Reply(404)
  ELSE LET poll == JSON_parse(raw[1])
       IN  IF "userVotes" \notin DOMAIN poll THEN Reply(500)
           ELSE LET userIndex == findIndex(poll.userVotes, userName)
                IN  IF userIndex = THROWS THEN Reply(500)
                    ELSE IF userIndex = -1 THEN Reply(404)
                    ELSE Write(DeleteUpdate(poll, userIndex))

\* legacy add-date: the validation of the body
DateInvalid(newDate) == Falsy(newDate)

\* mutant of DateStep: an absent document is created with the new option
DateStepUpsert(raw, newDate) ==
  IF raw = <<>>
  THEN Write([initialData EXCEPT !.options = <<Option(newDate, 0)>>])
  ELSE LET poll == JSON_parse(raw[1])
       IN  Write([poll EXCEPT !.options = Append(@, Option(newDate, 0))])

\* mutant of DateStep: the document is rebuilt from its legacy fields only
DateStepLegacyShape(raw, newDate) ==
  IF raw = <<>> THEN Reply(404)
  ELSE LET poll == JSON_parse(raw[1])
       IN  Write([id |-> poll.id, title |-> poll.title,
                  options |-> Append(poll.options, Option(newDate, 0))])

\* legacy add-date: from the answer of the get to the set
DateStep(raw, newDate) ==
  IF raw = <<>> THEN Reply(404)
  ELSE LET poll == JSON_parse(raw[1])
       IN  Write([poll EXCEPT !.options = Append(@, Option(newDate, 0))])

\* mutant of VoteOutOfBounds: > instead of >=
VoteOutOfBoundsOffByOne(optionIndex, options) ==
  /\ optionIndex # <<>>
  /\ \/ optionIndex[1] < 0
     \/ optionIndex[1] > Len(options)

\* legacy vote: optionIndex < 0 || optionIndex >= poll.options.length
\* (both comparisons are false when optionIndex is undefined)
VoteOutOfBounds(optionIndex, options) ==
  /\ optionIndex # <<>>
  /\ \/ optionIndex[1] < 0
     \/ optionIndex[1] >= Len(options)

\* mutant of VoteStep: votes-- instead of votes++
VoteStepDecrement(raw, optionIndex) ==
  IF raw = <<>> THEN Reply(404)
  ELSE LET poll == JSON_parse(raw[1])
       IN  IF VoteOutOfBounds(optionIndex, poll.options) THEN Reply(400)
           ELSE IF optionIndex = <<>> THEN Reply(500)
           ELSE Write([poll EXCEPT !.options[optionIndex[1] + 1].votes = @ - 1])

\* legacy vote: from the answer of the get to the set
VoteStep(raw, optionIndex) ==
  IF raw = <<>> THEN Reply(404)
  ELSE LET poll == JSON_parse(raw[1])
       IN  IF VoteOutOfBounds(optionIndex, poll.options) THEN Reply(400)
           ELSE IF optionIndex = <<>> THEN Reply(500)
           ELSE Write([poll EXCEPT !.options[optionIndex[1] + 1].votes = @ + 1])

\* ----------------------------------------------------------- initializer
\* mutant of EnsureStep: a document without userVotes is replaced by the
\* default document
EnsureStepOverwrite(poll) ==
  IF poll = <<>> THEN <<initialData>>
  ELSE LET pollData == JSON_parse(poll[1])
       IN  IF "userVotes" \notin DOMAIN pollData
           THEN <<initialData>>
           ELSE <<>>

\* startup: what ensurePollExists passes to redisClient.set for the value
\* `poll` it read (<<>>: it performs no set)
EnsureStep(poll) ==
  IF poll = <<>> THEN <<initialData>>
  ELSE LET pollData == JSON_parse(poll[1])
       IN  IF "userVotes" \notin DOMAIN pollData
           THEN <<pollData @@ [userVotes |-> <<>>]>>
           ELSE <<>>

\* mutant of RedisSet: the entries stored meanwhile are kept (a merge)
RedisSetMerge(old, value) ==
  IF old = <<>> \/ "userVotes" \notin DOMAIN JSON_parse(old[1])
                \/ "userVotes" \notin DOMAIN JSON_parse(value)
  THEN <<value>>
  ELSE LET mine   == JSON_parse(value).userVotes
           theirs == SelectSeq(JSON_parse(old[1]).userVotes,
                               LAMBDA v : \A k \in 1 .. Len(mine) : mine[k].userName # v.userName)
       IN  <<JSON_stringify([JSON_parse(value) EXCEPT !.userVotes = theirs \o mine])>>

\* redisClient.set(POLL_KEY, value): the value of the key afterwards
RedisSet(old, value) == <<value>>

\* mutant of AckEvents: the response is sent without the broadcast
AckEventsNoEmit == <<"respond">>

\* mutant of AckEvents: the broadcast is sent but no response
AckEventsNoRespond == <<"emit">>

\* after the set has resolved: io.emit("pollUpdated"), then res.json(...)
AckEvents == <<"emit", "respond">>

\* ------------------------------------------------------------- the inputs
Requests == 1 .. NReq

\* values of Date.now().toString()
Times == {"1712300000001"}

NoDates == [kind |-> "undefined", items |-> <<>>]
Dates(items) == [kind |-> "array", items |-> items]

\* bodies of POST /poll/user-dates
SubmitBodies ==
  {[userName |-> "Alice", dates |-> Dates(<<D1>>)],
   [userName |-> "alice", dates |-> Dates(<<D4, D4>>)]}
  \cup {[userName |-> "Bob", dates |-> Dates(d)] : d \in {<<D1>>, <<D4, D4>>}}
  \cup {[userName |-> NUM5,      dates |-> Dates(<<D1>>)],
        [userName |-> UNDEFINED, dates |-> Dates(<<D1>>)],
        [userName |-> "Alice",   dates |-> NoDates],
        [userName |-> "Alice",   dates |-> Dates(<<>>)],
        [userName |-> "Alice",   dates |-> [kind |-> "string", items |-> <<>>]]}

\* :userName of DELETE /poll/user-dates/:userName (the handler's own check
\* is the only thing that stops an empty one)
DeleteNames == {"", "ALICE", "Carol"}

\* newDate of POST /poll/date
NewDates == {UNDEFINED, D4}

\* optionIndex of POST /poll/vote
OptionIndexes == {<<>>, <<-1>>, <<0>>, <<3>>, <<99>>}

\* ---------------------------------------------------------------- state
VARIABLES
  store,       \* the value of POLL_KEY in Redis: <<>> or <<string>>
  init,        \* ensurePollExists, called from the listen callback: where it
               \* is (pc), the value it read (poll), the document it sets
  req,         \* the HTTP requests
  broadcasts   \* number of io.emit("pollUpdated") so far

vars == <<store, init, req, broadcasts>>

\* A request: its endpoint and input, where its handler is (pc), the value
\* its get returned (raw), the document it passes to set (poll), the status
\* and body of its response, and the events of its handler in order (log).
NoRequest ==
  [ep |-> "none", userName |-> UNDEFINED, dates |-> NoDates,
   newDate |-> UNDEFINED, optionIndex |-> <<>>,
   pc |-> "idle", raw |-> <<>>, poll |-> <<>>,
   status |-> 0, body |-> <<>>, log |-> <<>>]

StoredBefore ==
  {<<>>, <<JSON_stringify(OldShapeDoc)>>, <<JSON_stringify(PopulatedDoc)>>}

\* server.listen has called back and ensurePollExists awaits its get
Init ==
  /\ store \in StoredBefore
  /\ init = [pc |-> "get", poll |-> <<>>, pollData |-> <<>>]
  /\ req = [r \in Requests |-> NoRequest]
  /\ broadcasts = 0

\* ---------------------------------------------------------- initializer
\* `const poll = await redisClient.get(POLL_KEY)` answers, or rejects
EnsureGet ==
  /\ init.pc = "get"
  /\ \E ok \in BOOLEAN :
       init' = IF ~ok THEN [init EXCEPT !.pc = "failed"]
               ELSE [pc |-> IF EnsureStep(store) = <<>> THEN "done" ELSE "set",
                     poll |-> store,
                     pollData |-> EnsureStep(store)]
  /\ UNCHANGED <<store, req, broadcasts>>

\* `await redisClient.set(POLL_KEY, JSON.stringify(...))` is applied, or rejects
EnsureSet ==
  /\ init.pc = "set"
  /\ \E ok \in BOOLEAN :
       IF ok
       THEN /\ store' = RedisSet(store, JSON_stringify(init.pollData[1]))
            /\ init' = [init EXCEPT !.pc = "done"]
       ELSE /\ init' = [init EXCEPT !.pc = "failed"]
            /\ UNCHANGED store
  /\ UNCHANGED <<req, broadcasts>>

\* ----------------------------------------------------------- the handlers
\* A handler touches shared state only through the store and io.emit.  Its
\* arrival, its validation and the answer of its get are one step (nothing
\* before the answer is visible to another handler); the code that follows
\* the answer runs without interruption up to the set, which the store
\* applies in a later step; the handler resumes after the set in a third.
\* A store operation that rejects is taken to have had no effect on the key.

\* requests are numbered in the order they arrive
CanArrive(r) ==
  /\ req[r].pc = "idle"
  /\ r > 1 => req[r - 1].pc # "idle"

\* the request is rejected by the validation, before any store operation
Rejected(q) == [q EXCEPT !.pc = "done", !.status = 400, !.log = <<"respond">>]

\* the get of the request rejects: the catch block answers 500
GetFailed(q) ==
  [q EXCEPT !.pc = "done", !.status = 500, !.log = <<"get", "getError", "respond">>]

\* the get of the request returned `raw` and the handler ran up to its next
\* await (a set) or to its response
Continue(q, raw, step) ==
  [q EXCEPT !.raw = raw,
            !.poll = step.write,
            !.status = step.status,
            !.pc = IF step.write # <<>> THEN "set" ELSE "done",
            !.log = <<"get">> \o (IF step.status # 0 THEN <<"respond">> ELSE <<>>)
                              \o (IF step.write # <<>> THEN <<"set">> ELSE <<>>)]

\* mutant of GetPoll: the document is saved with its popularDates
GetPollPersist(r) ==
  /\ CanArrive(r)
  /\ \E ok \in BOOLEAN :
       LET q == [req[r] EXCEPT !.ep = "GET"]
       IN  /\ req' = [req EXCEPT ![r] =
                        IF ~ok THEN GetFailed(q)
                        ELSE IF store = <<>>
                             THEN Continue(q, store, Reply(404))
                             ELSE [Continue(q, store, Reply(200))
                                     EXCEPT !.body = <<GetPollBody(store[1])>>]]
           /\ store' = IF ok /\ store # <<>>
                       THEN <<JSON_stringify(GetPollBody(store[1]))>>
                       ELSE store
  /\ UNCHANGED <<init, broadcasts>>

\* GET /poll
GetPoll(r) ==
  /\ CanArrive(r)
  /\ \E ok \in BOOLEAN :
       LET q == [req[r] EXCEPT !.ep = "GET"]
       IN  req' = [req EXCEPT ![r] =
                     IF ~ok THEN GetFailed(q)
                     ELSE IF store = <<>>
                          THEN Continue(q, store, Reply(404))
                          ELSE [Continue(q, store, Reply(200))
                                  EXCEPT !.body = <<GetPollBody(store[1])>>]]
  /\ UNCHANGED <<store, init, broadcasts>>

\* POST /poll/user-dates, up to the await of the set
SubmitUserDates(r) ==
  /\ CanArrive(r)
  /\ \E b \in SubmitBodies, now \in Times, ok \in BOOLEAN :
       LET q == [req[r] EXCEPT !.ep = "submit", !.userName = b.userName, !.dates = b.dates]
       IN  req' = [req EXCEPT ![r] =
                     IF SubmitInvalid(b.userName, b.dates) THEN Rejected(q)
                     ELSE IF ~ok THEN GetFailed(q)
                     ELSE Continue(q, store, SubmitStep(store, b.userName, b.dates, now))]
  /\ UNCHANGED <<store, init, broadcasts>>

\* DELETE /poll/user-dates/:userName, up to the await of the set
DeleteUserDates(r) ==
  /\ CanArrive(r)
  /\ \E u \in DeleteNames, ok \in BOOLEAN :
       LET q == [req[r] EXCEPT !.ep = "delete", !.userName = u]
       IN  req' = [req EXCEPT ![r] =
                     IF DeleteInvalid(u) THEN Rejected(q)
                     ELSE IF ~ok THEN GetFailed(q)
                     ELSE Continue(q, store, DeleteStep(store, u))]
  /\ UNCHANGED <<store, init, broadcasts>>

\* POST /poll/date, up to the await of the set
AddDate(r) ==
  /\ CanArrive(r)
  /\ \E d \in NewDates, ok \in BOOLEAN :
       LET q == [req[r] EXCEPT !.ep = "date", !.newDate = d]
       IN  req' = [req EXCEPT ![r] =
                     IF DateInvalid(d) THEN Rejected(q)
                     ELSE IF ~ok THEN GetFailed(q)
                     ELSE Continue(q, store, DateStep(store, d))]
  /\ UNCHANGED <<store, init, broadcasts>>

\* POST /poll/vote, up to the await of the set
Vote(r) ==
  /\ CanArrive(r)
  /\ \E i \in OptionIndexes, ok \in BOOLEAN :
       LET q == [req[r] EXCEPT !.ep = "vote", !.optionIndex = i]
       IN  req' = [req EXCEPT ![r] =
                     IF ~ok THEN GetFailed(q)
                     ELSE Continue(q, store, VoteStep(store, i))]
  /\ UNCHANGED <<store, init, broadcasts>>

\* the set of a mutating request is applied by the store
SetApplied(r) ==
  /\ req[r].pc = "set"
  /\ store' = RedisSet(store, JSON_stringify(req[r].poll[1]))
  /\ req' = [req EXCEPT ![r].pc = "ack", ![r].log = Append(@, "written")]
  /\ UNCHANGED <<init, broadcasts>>

\* the set of a mutating request rejects: the catch block answers 500
SetFailed(r) ==
  /\ req[r].pc = "set"
  /\ req' = [req EXCEPT ![r].pc = "done",
                        ![r].status = IF @ = 0 THEN 500 ELSE @,
                        ![r].log = @ \o <<"setError", "respond">>]
  /\ UNCHANGED <<store, init, broadcasts>>

\* the handler resumes after its set: broadcast, then the success response
Acknowledge(r) ==
  /\ req[r].pc = "ack"
  /\ broadcasts' = broadcasts + Cardinality({k \in 1 .. Len(AckEvents) : AckEvents[k] = "emit"})
  /\ req' = [req EXCEPT ![r].pc = "done",
                        ![r].status = IF @ = 0 THEN 200 ELSE @,
                        ![r].log = @ \o AckEvents]
  /\ UNCHANGED <<store, init>>

Next ==
  \/ EnsureGet
  \/ EnsureSet
  \/ \E r \in Requests :
       \/ GetPoll(r)
       \/ SubmitUserDates(r)
       \/ DeleteUserDates(r)
       \/ AddDate(r)
       \/ Vote(r)
       \/ SetApplied(r)
       \/ SetFailed(r)
       \/ Acknowledge(r)

Spec == Init /\ [][Next]_vars

\* the server starts on a store that has no document yet
InitFair == Init /\ store = <<>>

\* Every set a handler awaits is eventually applied or rejected by the
\* store, and the handler resumes after a set that was applied.
FairSpec ==
  /\ InitFair
  /\ [][Next]_vars
  /\ \A r \in Requests :
       /\ WF_vars(SetApplied(r) \/ SetFailed(r))
       /\ WF_vars(Acknowledge(r))

\* --------------------------------------------- GET /poll on its own
\* The documents GET /poll is applied to: up to MaxUsers entries, written by
\* earlier submits of distinct users, with these dates.
DateLists ==
  {<<D1>>, <<D2, D1>>, <<D3, D4>>, <<D5, D6>>, <<D4, D4>>, <<D7, D1, D2>>}

UserNames == <<"Alice", "Bob", "Carol", "Dave", "Erin", "Frank">>

DocWithDates(f) ==
  [id        |-> POLL_ID,
   title     |-> POLL_TITLE,
   userVotes |-> [k \in DOMAIN f |-> UserVote("1712200000017", UserNames[k], f[k])],
   options   |-> initialData.options]

StoredForGet ==
  {<<JSON_stringify(DocWithDates(f))>> :
     f \in UNION {[1 .. n -> DateLists] : n \in 0 .. MaxUsers}}

\* the initializer has read such a document and ended without a set
InitGet ==
  /\ store \in StoredForGet
  /\ init = [pc |-> "done", poll |-> store, pollData |-> <<>>]
  /\ req = [r \in Requests |-> NoRequest]
  /\ broadcasts = 0

NextGet == \E r \in Requests : GetPoll(r)

SpecGet == InitGet /\ [][NextGet]_vars

TypeOK ==
  /\ store = <<>> \/ Len(store) = 1
  /\ init.pc \in {"get", "set", "done", "failed"}
  /\ \A r \in Requests : req[r].pc \in {"idle", "set", "ack", "done"}
  /\ broadcasts \in 0 .. NReq

\* ================================================================ claims
\* helpers of the claims
Mutating == {"submit", "delete", "date", "vote"}

\* the two names are equal up to the case of their letters
SameName(a, b) ==
  \/ a = b
  \/ /\ HasToLowerCase(a)
     /\ HasToLowerCase(b)
     /\ toLowerCase(a) = toLowerCase(b)

Has(log, e) == \E k \in 1 .. Len(log) : log[k] = e
Count(log, e) == Cardinality({k \in 1 .. Len(log) : log[k] = e})

\* the handler of q got an answer to its get
HasRead(q) == Has(q.log, "get") /\ ~Has(q.log, "getError")

\* the userVotes of a stored value (none when the key or the field is absent)
UserVotesOf(raw) ==
  IF raw = <<>> THEN <<>>
  ELSE IF "userVotes" \in DOMAIN JSON_parse(raw[1]) THEN JSON_parse(raw[1]).userVotes
  ELSE <<>>

OptionsOf(raw) == IF raw = <<>> THEN <<>> ELSE JSON_parse(raw[1]).options

\* positions of the entries of userVotes named userName, case-insensitively
Matches(userVotes, userName) ==
  {k \in 1 .. Len(userVotes) : SameName(userVotes[k].userName, userName)}

\* the store holds exactly the document request q passed to its set
HoldsWriteOf(q) == q.poll # <<>> /\ store = <<JSON_stringify(q.poll[1])>>

\* C1: after a submit acknowledged with success, and while the store holds
\* what that submit wrote, GET /poll returns a userVotes entry with the
\* submitted name (up to case) and exactly the submitted dates; a user the
\* submit did not find in what it read is appended at the end.
C1_SubmitThenRead ==
  \A r \in Requests :
    LET q == req[r]
    IN  (q.ep = "submit" /\ q.status = 200 /\ HoldsWriteOf(q)) =>
          LET uv  == GetPollBody(store[1]).userVotes
              old == UserVotesOf(q.raw)
          IN  /\ \E k \in 1 .. Len(uv) :
                   /\ SameName(uv[k].userName, q.userName)
                   /\ uv[k].dates = q.dates.items
              /\ Matches(old, q.userName) = {} =>
                   /\ Len(uv) = Len(old) + 1
                   /\ SubSeq(uv, 1, Len(old)) = old
                   /\ uv[Len(uv)].userName = q.userName
                   /\ uv[Len(uv)].dates = q.dates.items

\* C1 witness: a new user was appended after an existing one and a read
\* would now return it
C1_Witness ==
  \E r \in Requests :
    /\ req[r].ep = "submit"
    /\ req[r].status = 200
    /\ HoldsWriteOf(req[r])
    /\ Len(UserVotesOf(req[r].raw)) = 1
    /\ Matches(UserVotesOf(req[r].raw), req[r].userName) = {}
    /\ Len(req[r].dates.items) = 2

\* C2: the stored userVotes never holds two entries whose names are equal
\* up to case, whatever the interleaving of the requests and the startup.
C2_UniqueNames ==
  LET uv == UserVotesOf(store)
  IN  \A i, j \in 1 .. Len(uv) : i # j => ~SameName(uv[i].userName, uv[j].userName)

\* C2 witness: two submits for "Alice" and "alice" were both acknowledged
\* and the store holds one entry
C2_Witness ==
  /\ Len(UserVotesOf(store)) = 1
  /\ \E r1, r2 \in Requests :
       /\ req[r1].ep = "submit" /\ req[r1].status = 200 /\ req[r1].userName = "Alice"
       /\ req[r2].ep = "submit" /\ req[r2].status = 200 /\ req[r2].userName = "alice"

\* C3: a submit of a name (a string) that has an entry, up to case, in the
\* document it read passes to its set that document with only the dates of
\* that entry replaced by the submitted ones: same length, same position,
\* same id and stored name, every other entry and field as read.
C3_ResubmitReplaces ==
  \A r \in Requests :
    LET q   == req[r]
        old == UserVotesOf(q.raw)
    IN  (q.ep = "submit" /\ HasRead(q) /\ HasToLowerCase(q.userName)
           /\ Matches(old, q.userName) # {}) =>
          /\ Has(q.log, "set")
          /\ \E k \in Matches(old, q.userName) :
               q.poll = <<[JSON_parse(q.raw[1]) EXCEPT !.userVotes[k].dates = q.dates.items]>>

\* C3 witness: "alice" resubmitted with other dates for the stored "Alice",
\* the write is in the store
C3_Witness ==
  \E r \in Requests :
    /\ req[r].ep = "submit"
    /\ req[r].status = 200
    /\ HoldsWriteOf(req[r])
    /\ req[r].userName = "alice"
    /\ \E k \in 1 .. Len(UserVotesOf(req[r].raw)) :
         /\ UserVotesOf(req[r].raw)[k].userName = "Alice"
         /\ UserVotesOf(req[r].raw)[k].dates # req[r].dates.items
         /\ UserVotesOf(store)[k].userName = "Alice"
         /\ UserVotesOf(store)[k].dates = req[r].dates.items
    /\ Len(UserVotesOf(store)) = 2

\* C4 (as claimed): a delete that read an existing document (one that has
\* userVotes) either finds one entry with its name (up to case) and writes
\* the document without exactly that entry, or finds none and answers 404
\* without a set and without a broadcast.
C4_DeleteClaim ==
  \A r \in Requests :
    LET q   == req[r]
        old == UserVotesOf(q.raw)
    IN  (q.ep = "delete" /\ HasRead(q) /\ q.raw # <<>>
           /\ "userVotes" \in DOMAIN JSON_parse(q.raw[1])) =>
          IF Matches(old, q.userName) = {}
          THEN /\ q.status = 404
               /\ q.poll = <<>>
               /\ ~Has(q.log, "set")
               /\ ~Has(q.log, "emit")
          ELSE \E k \in Matches(old, q.userName) :
                 q.poll = <<[JSON_parse(q.raw[1]) EXCEPT !.userVotes = Splice1(old, k - 1)]>>

\* the step is the store applying the set of request r
IsSetOf(r) == req[r].pc = "set" /\ req'[r].pc = "ack"

\* the step is the store applying the set of the initializer
IsSetOfInit == init.pc = "set" /\ init'.pc = "done"

\* no option present before and after the step has fewer votes after it
VotesNotLowered ==
  \A i \in 1 .. Len(OptionsOf(store)) :
    i <= Len(OptionsOf(store')) => OptionsOf(store')[i].votes >= OptionsOf(store)[i].votes

\* C5 (as claimed): from one store state to the next, under any
\* interleaving of the requests (the initializer has ended), the votes of
\* no option decrease.
C5_VotesNeverDecrease == [][init.pc = "done" => VotesNotLowered]_vars

\* C5 (amended): a set whose writer read the value that is stored when the
\* set is applied lowers the votes of no option and removes no option.
C5_VotesKeptByFreshWrite ==
  [][ /\ \A r \in Requests :
           (IsSetOf(r) /\ req[r].raw = store) =>
             /\ VotesNotLowered
             /\ Len(OptionsOf(store')) >= Len(OptionsOf(store))
      /\ (IsSetOfInit /\ init.poll = store /\ store # <<>>) =>
             /\ VotesNotLowered
             /\ Len(OptionsOf(store')) >= Len(OptionsOf(store)) ]_vars

\* C5 witness: a legacy vote, applied to the value it read, raised a counter
C5_Witness ==
  \E r \in Requests :
    /\ req[r].ep = "vote"
    /\ req[r].status = 200
    /\ HoldsWriteOf(req[r])
    /\ OptionsOf(store)[req[r].optionIndex[1] + 1].votes
         = OptionsOf(req[r].raw)[req[r].optionIndex[1] + 1].votes + 1

\* the request is a submit that pushes a new entry onto the snapshot raw
PushesOnto(q, raw) ==
  /\ q.ep = "submit"
  /\ q.raw = raw
  /\ raw # <<>>
  /\ Has(q.log, "set")
  /\ Matches(UserVotesOf(raw), q.userName) = {}

\* C6: when two submits for distinct users read the same stored value and
\* the set of one is applied after the set of the other, the store then
\* holds the later writer's entry and has lost the earlier writer's.
C6_LastWriterWins ==
  [][ \A r1, r2 \in Requests :
        ( /\ r1 # r2
          /\ IsSetOf(r2)
          /\ PushesOnto(req[r2], req[r2].raw)
          /\ PushesOnto(req[r1], req[r2].raw)
          /\ Has(req[r1].log, "written")
          /\ ~SameName(req[r1].userName, req[r2].userName) )
        => /\ Matches(UserVotesOf(store'), req[r2].userName) # {}
           /\ Matches(UserVotesOf(store'), req[r1].userName) = {} ]_vars

\* C6 witness: both submits were acknowledged with success, both read the
\* same value, and the store holds the entry of one of them only
C6_Witness ==
  \E r1, r2 \in Requests :
    /\ r1 # r2
    /\ PushesOnto(req[r1], req[r2].raw)
    /\ PushesOnto(req[r2], req[r2].raw)
    /\ req[r1].status = 200
    /\ req[r2].status = 200
    /\ ~SameName(req[r1].userName, req[r2].userName)
    /\ HoldsWriteOf(req[r2])
    /\ Matches(UserVotesOf(store), req[r1].userName) = {}
    /\ Matches(UserVotesOf(store), req[r2].userName) # {}

\* C7 (as claimed): a handler reads the store only after the initializer has
\* ended, and so never reads an absent document or one without userVotes
\* unless the initializer's own store operation failed.
C7_InitBeforeRequests ==
  \A r \in Requests :
    HasRead(req[r]) =>
      /\ init.pc \notin {"get", "set"}
      /\ init.pc = "done" =>
           /\ req[r].raw # <<>>
           /\ "userVotes" \in DOMAIN JSON_parse(req[r].raw[1])

\* C8: a request answered with 400, 404 or 500 has not written the store and
\* has not broadcast, and no handler issues a second get or a second set.
C8_ErrorLeavesStore ==
  \A r \in Requests :
    LET q == req[r]
    IN  /\ q.status \in {400, 404, 500} =>
             /\ ~Has(q.log, "written")
             /\ ~Has(q.log, "emit")
             /\ q.pc = "done"
        /\ Count(q.log, "get") <= 1
        /\ Count(q.log, "set") <= 1
        /\ Has(q.log, "written") => HasRead(q) /\ Has(q.log, "set") /\ ~Has(q.log, "setError")

\* C8 witness: the set of a request failed, it answered 500 and the store
\* still holds what it read
C8_Witness ==
  \E r \in Requests :
    /\ req[r].status = 500
    /\ Has(req[r].log, "setError")
    /\ store = req[r].raw
    /\ ~HoldsWriteOf(req[r])

\* C9: a mutating request answered with success has, in this order, read,
\* issued its set, had it applied, broadcast once and responded; a request
\* answered otherwise has not broadcast; the broadcasts are those of the
\* successful requests.
C9_OneBroadcastPerSuccess ==
  /\ \A r \in Requests :
       LET q == req[r]
       IN  /\ (q.ep \in Mutating /\ q.status = 200) =>
                q.log = <<"get", "set", "written", "emit", "respond">>
           /\ (q.ep \in Mutating /\ q.pc = "done" /\ q.status # 200) => ~Has(q.log, "emit")
           /\ q.ep = "GET" => ~Has(q.log, "emit")
  /\ broadcasts = Cardinality({r \in Requests : req[r].ep \in Mutating /\ req[r].status = 200})

\* C9 witness: one request succeeded and broadcast, another failed at its set
C9_Witness ==
  /\ broadcasts = 1
  /\ \E r1, r2 \in Requests :
       /\ req[r1].ep \in Mutating /\ req[r1].status = 200
       /\ req[r2].ep \in Mutating /\ req[r2].status = 500 /\ Has(req[r2].log, "setError")

\* C10 (as claimed): a request rejected with 400 has performed no store
\* operation (also when it arrives after the initializer has ended).
C10_ValidationBeforeStore ==
  \A r \in Requests :
    (init.pc = "done" /\ req[r].status = 400) =>
      ~Has(req[r].log, "get") /\ ~Has(req[r].log, "set")

\* the input of q fails the validation the spec gives for its endpoint
BadSubmit(q) ==
  \/ q.userName \in {UNDEFINED, ""}
  \/ q.dates.kind # "array"
  \/ q.dates.items = <<>>

BadInput(q) ==
  \/ q.ep = "submit" /\ BadSubmit(q)
  \/ q.ep = "delete" /\ q.userName \in {UNDEFINED, ""}
  \/ q.ep = "date" /\ q.newDate \in {UNDEFINED, ""}

\* C10 (amended): submit, delete and add-date reject an invalid input with
\* 400 before any store operation; a legacy vote rejects an out-of-bounds
\* optionIndex with 400 only after its get has returned the document, and
\* without a set.
C10_ValidationOrder ==
  \A r \in Requests :
    LET q == req[r]
    IN  /\ (q.ep \in {"submit", "delete", "date"} /\ q.pc # "idle") =>
             /\ BadInput(q) => (q.status = 400 /\ q.log = <<"respond">>)
             /\ q.status = 400 => q.log = <<"respond">>
        /\ (q.ep = "vote" /\ q.status = 400) =>
             /\ q.log = <<"get", "respond">>
             /\ q.raw # <<>>
             /\ \/ q.optionIndex[1] < 0
                \/ q.optionIndex[1] >= Len(OptionsOf(q.raw))
        /\ (q.ep = "vote" /\ HasRead(q) /\ q.raw # <<>> /\ q.optionIndex # <<>>) =>
             ( (q.optionIndex[1] < 0 \/ q.optionIndex[1] >= Len(OptionsOf(q.raw)))
                 => (q.status = 400 /\ q.log = <<"get", "respond">>) )

\* C10 witness: a submit with an empty dates array was rejected without a
\* get, and a vote with index 3 of 3 options was rejected after its get
C10_Witness ==
  \E r1, r2 \in Requests :
    /\ req[r1].ep = "submit" /\ req[r1].status = 400
    /\ req[r1].dates = Dates(<<>>) /\ req[r1].log = <<"respond">>
    /\ req[r2].ep = "vote" /\ req[r2].status = 400
    /\ req[r2].optionIndex = <<3>> /\ Len(OptionsOf(req[r2].raw)) = 3

\* the body of the 200 response of GET request q has popularDates
HasPopular(q) ==
  q.ep = "GET" /\ q.status = 200 /\ "popularDates" \in DOMAIN q.body[1]

\* the dates that occur in userVotes
DatesIn(userVotes) ==
  UNION {{userVotes[k].dates[j] : j \in 1 .. Len(userVotes[k].dates)} :
           k \in 1 .. Len(userVotes)}

\* C11: the popularDates of a GET /poll response has at most 5 entries and
\* their counts do not increase along the sequence.
C11_TopFiveSorted ==
  \A r \in Requests :
    HasPopular(req[r]) =>
      LET pd == req[r].body[1].popularDates
      IN  /\ Len(pd) <= 5
          /\ \A i, j \in 1 .. Len(pd) : i < j => pd[i].count >= pd[j].count

\* C11 witness: the document has more than 5 dates, the response has 5 and
\* its first count is larger than its last
C11_Witness ==
  \E r \in Requests :
    /\ HasPopular(req[r])
    /\ Cardinality(DatesIn(UserVotesOf(req[r].raw))) > 5
    /\ Len(req[r].body[1].popularDates) = 5
    /\ req[r].body[1].popularDates[1].count > req[r].body[1].popularDates[5].count

\* C12 (as claimed): the count of every entry of popularDates is the number
\* of userVotes entries whose dates contain its date.
C12_CountIsUsers ==
  \A r \in Requests :
    HasPopular(req[r]) =>
      LET pd == req[r].body[1].popularDates
          uv == UserVotesOf(req[r].raw)
      IN  \A k \in 1 .. Len(pd) :
            pd[k].count =
              Cardinality({i \in 1 .. Len(uv) :
                             \E j \in 1 .. Len(uv[i].dates) : uv[i].dates[j] = pd[k].date})

\* the step is the whole handling of a GET /poll by request r
IsGetOf(r) == req[r].pc = "idle" /\ req'[r].ep = "GET"

\* C13: a GET /poll, whatever its outcome, leaves the stored value as it is
\* and broadcasts nothing, and the stored document never has a popularDates
\* field.
C13_GetReadOnly ==
  /\ [](store # <<>> => "popularDates" \notin DOMAIN JSON_parse(store[1]))
  /\ [][\A r \in Requests :
          IsGetOf(r) => (store' = store /\ broadcasts' = broadcasts)]_vars

\* C13 witness: a GET answered 200 with popularDates and the store still
\* holds the value it read, without that field
C13_Witness ==
  \E r \in Requests :
    /\ HasPopular(req[r])
    /\ store = req[r].raw
    /\ "popularDates" \notin DOMAIN JSON_parse(store[1])
    /\ broadcasts = 0

\* C14: a legacy vote that read a document and carries a number as
\* optionIndex passes to its set that document with the votes of exactly
\* that option raised by 1 when the index is within the options, and
\* otherwise answers 400 without a set and without a broadcast.
C14_VoteInOrOut ==
  \A r \in Requests :
    LET q    == req[r]
        opts == OptionsOf(q.raw)
    IN  (q.ep = "vote" /\ HasRead(q) /\ q.raw # <<>> /\ q.optionIndex # <<>>) =>
          IF 0 <= q.optionIndex[1] /\ q.optionIndex[1] < Len(opts)
          THEN /\ Has(q.log, "set")
               /\ q.status \in {0, 200, 500}
               /\ q.poll = <<[JSON_parse(q.raw[1]) EXCEPT !.options =
                               [k \in 1 .. Len(opts) |->
                                  IF k = q.optionIndex[1] + 1
                                  THEN [label |-> opts[k].label, votes |-> opts[k].votes + 1]
                                  ELSE opts[k]]]>>
          ELSE /\ q.status = 400
               /\ q.poll = <<>>
               /\ q.log = <<"get", "respond">>

\* C14 witness: a vote for option 0 was applied and acknowledged, then a
\* vote with index 99 on the 3 options was answered 400 and the store still
\* holds the first vote's document
C14_Witness ==
  \E r1, r2 \in Requests :
    /\ req[r1].ep = "vote" /\ req[r1].status = 200 /\ req[r1].optionIndex = <<0>>
    /\ HoldsWriteOf(req[r1])
    /\ req[r2].ep = "vote" /\ req[r2].status = 400 /\ req[r2].optionIndex = <<99>>
    /\ req[r2].raw = store
    /\ Len(OptionsOf(store)) = 3
    /\ broadcasts = 1

\* the default document: fixed id and title, no userVotes, three options
\* with zero votes
IsDefaultDoc(doc) ==
  /\ DOMAIN doc = {"id", "title", "userVotes", "options"}
  /\ doc.id = POLL_ID
  /\ doc.title = POLL_TITLE
  /\ doc.userVotes = <<>>
  /\ Len(doc.options) = 3
  /\ \A k \in 1 .. 3 : doc.options[k].votes = 0

\* C15: the initializer that read an empty store sets the default document
\* and a GET that reads what it wrote answers 200 with that content; one
\* that read a document without userVotes sets that document with an empty
\* userVotes added and every other field as read; one that read a document
\* with userVotes sets nothing.
C15_Initializer ==
  /\ init.pc \in {"set", "done"} =>
       IF init.poll = <<>>
       THEN /\ init.pollData # <<>>
            /\ IsDefaultDoc(init.pollData[1])
       ELSE LET read == JSON_parse(init.poll[1])
            IN  IF "userVotes" \notin DOMAIN read
                THEN /\ init.pollData # <<>>
                     /\ DOMAIN init.pollData[1] = DOMAIN read \cup {"userVotes"}
                     /\ init.pollData[1].userVotes = <<>>
                     /\ \A f \in DOMAIN read : init.pollData[1][f] = read[f]
                ELSE /\ init.pollData = <<>>
                     /\ init.pc = "done"
  /\ (init.pc = "set" \/ (init.pc = "done" /\ init.pollData # <<>>)) =>
       \A r \in Requests :
         (req[r].ep = "GET" /\ HasRead(req[r])
            /\ req[r].raw = <<JSON_stringify(init.pollData[1])>>) =>
           /\ req[r].status = 200
           /\ req[r].body = init.pollData

\* C15 witness: the initializer found the store empty and has written the
\* default document, and a GET after it was answered 200 with that document
C15_Witness ==
  /\ init.pc = "done"
  /\ init.poll = <<>>
  /\ store = <<JSON_stringify(initialData)>>
  /\ \E r \in Requests :
       /\ req[r].ep = "GET" /\ req[r].status = 200
       /\ req[r].raw = store
       /\ IsDefaultDoc(req[r].body[1])

\* C16: the set of a submit or a delete that finds the store as its get
\* left it changes neither options, id nor title of the stored document,
\* and the set of a legacy add-date or a legacy vote in that situation
\* changes neither userVotes, id nor title.
C16_IndependentFields ==
  [][\A r \in Requests :
       (IsSetOf(r) /\ req[r].raw = store) =>
         LET old == JSON_parse(store[1])
             new == JSON_parse(store'[1])
         IN  /\ new.id = old.id
             /\ new.title = old.title
             /\ req[r].ep \in {"submit", "delete"} => new.options = old.options
             /\ req[r].ep \in {"date", "vote"} =>
                  /\ "userVotes" \in DOMAIN new <=> "userVotes" \in DOMAIN old
                  /\ UserVotesOf(store') = UserVotesOf(store)]_vars

\* C16 witness: a submit was applied on a document whose options carry a
\* vote, a legacy add-date that read the result was applied after it, and
\* the store holds the submit's userVotes and one option more
C16_Witness ==
  \E r1, r2 \in Requests :
    /\ req[r1].ep = "submit" /\ req[r1].status = 200
    /\ req[r2].ep = "date" /\ req[r2].status = 200
    /\ req[r1].poll # <<>>
    /\ req[r2].raw = <<JSON_stringify(req[r1].poll[1])>>
    /\ HoldsWriteOf(req[r2])
    /\ UserVotesOf(store) = req[r1].poll[1].userVotes
    /\ Len(UserVotesOf(store)) > 0
    /\ OptionsOf(req[r1].raw) = OptionsOf(req[r2].raw)
    /\ Len(OptionsOf(store)) = Len(OptionsOf(req[r1].raw)) + 1
    /\ \E k \in 1 .. Len(OptionsOf(store)) : OptionsOf(store)[k].votes > 0

\* C17: a submit that reads what a submit with the same userName and the
\* same dates passed to its set passes to its own set that same document
\* (same userVotes length, same entry at the same position, same name and
\* dates) when the name is a string; with a name that is no string it
\* performs no set.
C17_SubmitIdempotent ==
  \A r1, r2 \in Requests :
    LET q1 == req[r1]
        q2 == req[r2]
    IN  (/\ r1 # r2
         /\ q1.ep = "submit" /\ q2.ep = "submit"
         /\ q1.poll # <<>>
         /\ HasRead(q2)
         /\ q2.userName = q1.userName /\ q2.dates = q1.dates
         /\ q2.raw = <<JSON_stringify(q1.poll[1])>>) =>
          IF HasToLowerCase(q1.userName)
          THEN /\ Has(q2.log, "set")
               /\ q2.poll # <<>>
               /\ Len(q2.poll[1].userVotes) = Len(q1.poll[1].userVotes)
               /\ \E k \in Matches(q1.poll[1].userVotes, q1.userName) :
                    /\ q2.poll[1].userVotes[k].userName = q1.poll[1].userVotes[k].userName
                    /\ q2.poll[1].userVotes[k].dates = q1.dates.items
                    /\ q1.poll[1].userVotes[k].dates = q1.dates.items
               /\ q2.poll = q1.poll
          ELSE /\ q2.poll = <<>>
               /\ ~Has(q2.log, "set")

\* C17 witness: a submit for a user not yet stored appended an entry, the
\* same submit was made again on the result, both were acknowledged and the
\* store holds the second one's document with one entry more than at first
C17_Witness ==
  \E r1, r2 \in Requests :
    /\ r1 # r2
    /\ req[r1].ep = "submit" /\ req[r1].status = 200
    /\ req[r2].ep = "submit" /\ req[r2].status = 200
    /\ req[r2].userName = req[r1].userName /\ req[r2].dates = req[r1].dates
    /\ Matches(UserVotesOf(req[r1].raw), req[r1].userName) = {}
    /\ req[r1].poll # <<>>
    /\ req[r2].raw = <<JSON_stringify(req[r1].poll[1])>>
    /\ HoldsWriteOf(req[r2])
    /\ Len(UserVotesOf(store)) = Len(UserVotesOf(req[r1].raw)) + 1

\* C18: a request whose get found the key absent is answered 404 with no
\* set and no broadcast, whatever its endpoint, and a step that takes the
\* key from absent to present is the initializer's set and no request's.
C18_AbsentDocument ==
  /\ [](\A r \in Requests :
          (HasRead(req[r]) /\ req[r].raw = <<>>) =>
            /\ req[r].status = 404
            /\ req[r].poll = <<>>
            /\ req[r].log = <<"get", "respond">>)
  /\ [][(store = <<>> /\ store' # <<>>) =>
          (IsSetOfInit /\ req' = req /\ broadcasts' = broadcasts)]_vars

\* C18 witness: the key is absent, a GET and a legacy add-date with a valid
\* body were both answered 404, nothing was broadcast
C18_Witness ==
  /\ store = <<>>
  /\ broadcasts = 0
  /\ \E r1, r2 \in Requests :
       /\ req[r1].ep = "GET" /\ req[r1].status = 404 /\ HasRead(req[r1])
       /\ req[r2].ep = "date" /\ req[r2].status = 404 /\ HasRead(req[r2])
       /\ req[r2].newDate = D4

\* C19 (as claimed): the body of every 200 response of GET /poll has every
\* field of the document read and a popularDates field, which is the empty
\* sequence when userVotes is empty.
C19_PopularAlwaysPresent ==
  \A r \in Requests :
    (req[r].ep = "GET" /\ req[r].status = 200) =>
      LET body == req[r].body[1]
          read == JSON_parse(req[r].raw[1])
      IN  /\ \A f \in DOMAIN read : f \in DOMAIN body /\ body[f] = read[f]
          /\ "popularDates" \in DOMAIN body
          /\ UserVotesOf(req[r].raw) = <<>> => body.popularDates = <<>>

\* C20: a request that awaits a store operation is eventually finished, a
\* finished request has sent exactly one response and an unfinished one
\* has sent none.
C20_OneResponse ==
  /\ [](\A r \in Requests :
          /\ req[r].pc = "done" => Count(req[r].log, "respond") = 1
          /\ req[r].pc \in {"idle", "set", "ack"} => Count(req[r].log, "respond") = 0)
  /\ \A r \in Requests :
       (req[r].pc \in {"set", "ack"}) ~> (req[r].pc = "done")

\* C20 witness: one request was answered after its set was applied and
\* another after its set was rejected, each with one response
C20_Witness ==
  \E r1, r2 \in Requests :
    /\ req[r1].pc = "done" /\ req[r1].status = 200 /\ Has(req[r1].log, "written")
    /\ req[r2].pc = "done" /\ req[r2].status = 500 /\ Has(req[r2].log, "setError")
    /\ Count(req[r1].log, "respond") = 1
    /\ Count(req[r2].log, "respond") = 1

====
